---- MODULE Spec2Model ----
(***************************************************************************)
(* Model of github-search-tool.py: the pagination loop fetch_results, the  *)
(* session that search_github builds (urllib3 Retry mounted on https://),  *)
(* and the exporters save_to_json / save_to_csv / save_to_xml with their   *)
(* optional enrichment (langdetect.detect + translate_text).               *)
(***************************************************************************)
EXTENDS Integers, Sequences, FiniteSets, TLC

(* ------------------------------- bounds -------------------------------- *)
\* largest num_results handed to fetch_results
MaxN == 3
\* largest number of items one response carries (per_page)
MaxPageSize == 2
\* number of events the history variable trace records before it is full
MaxTrace == 7
\* largest collection handed to an exporter
MaxRecords == 2

(* -------------------------- program constants -------------------------- *)
\* Retry(total=5, ...)
RetryTotal == 5
\* sleep(1) after a page
PolitenessDelay == 1
\* sleep(60) after a 403
Cooldown == 60
\* the status the except-branch compares response.status_code with
RateLimitStatus == 403

\* Retry(status_forcelist=[403, 500, 502, 503, 504])
StatusForcelist == {403, 500, 502, 503, 504}

\* statuses a server is taken to answer with (one success, the rate-limit
\* status, one client error outside the forcelist, one forcelist 5xx)
Statuses == {200, 403, 404, 503}

VARIABLES
  \* ---- fetch_results ----
  num_results,   \* parameter num_results
  results,       \* local results
  page,          \* local page
  params,        \* params['page'] (0 = not set yet)
  response,      \* local response: [status, json, body], or NoResponse
  items,         \* local items
  pc,            \* position in fetch_results
  ret,           \* value returned by fetch_results (NoValue before)
  raised,        \* TRUE iff an exception left fetch_results
  retry,         \* remaining Retry.total of the request in flight
  \* ---- history ----
  trace,         \* fetch calls and sleeps, in order, up to MaxTrace events
  overflow,      \* TRUE iff an event happened after trace was full
  got,           \* sizes of the pages extended into results, in order
  \* ---- exporters ----
  data,          \* parameter data (list of repo dicts; mutated by save_to_json)
  fmt,           \* "json" | "csv" | "tsv" | "xml"
  translate,     \* parameter translate
  available,     \* TRANSLATION_AVAILABLE
  epc,           \* position in the exporter
  idx,           \* index of the repo the for-loop is at
  out,           \* save_to_xml: children of root built so far
  file,          \* the file filename names: [written, delimiter, header, rows]
  retval,        \* value returned by the exporter (NoValue before it returns)
  eraised,       \* exception that left the exporter ("none" if none)
  stdout,        \* TRUE iff "Results saved to ..." was printed
  calls          \* enrichment calls made so far: [i, fn, res]

fetchVars == <<num_results, results, page, params, response, items, pc, ret,
               raised, retry, trace, overflow, got>>
exportVars == <<data, fmt, translate, available, epc, idx, out, file, retval,
                eraised, stdout, calls>>
vars == <<num_results, results, page, params, response, items, pc, ret,
          raised, retry, trace, overflow, got,
          data, fmt, translate, available, epc, idx, out, file, retval,
          eraised, stdout, calls>>

\* json = FALSE: response.json() (or .get on what it returns) raises
NoResponse == [status |-> 0, json |-> FALSE, body |-> <<>>]
NoValue == <<"NoValue">>

Min(a, b) == IF a < b THEN a ELSE b

(* ------------------------------ upstream ------------------------------- *)
\* the items the server ranks on page p when that page holds s of them
PageItems(p, s) == [i \in 1..s |-> <<p, i>>]

\* bodies a 200 response can carry for page p: a JSON object whose 'items'
\* has 0..MaxPageSize entries, or something response.json() / .get rejects
Bodies(p) ==
  {[json |-> TRUE, body |-> PageItems(p, s)] : s \in 0..MaxPageSize}
    \cup {[json |-> FALSE, body |-> <<>>]}

RECURSIVE Upstream(_, _)
\* concatenation of pages 1..k, page j holding sizes[j] items
Upstream(sizes, k) ==
  IF k = 0 THEN <<>>
  ELSE Upstream(sizes, k - 1) \o PageItems(k, sizes[k])

(* ------------------------------- history ------------------------------- *)
GetEvent(p, o, s, acc) == [op |-> "get", n |-> p, out |-> o, srv |-> s, acc |-> acc]
SleepEvent(secs, acc) == [op |-> "sleep", n |-> secs, out |-> "-", srv |-> 0, acc |-> acc]

Log(t, evs) == SubSeq(t \o evs, 1, Min(Len(t \o evs), MaxTrace))
Dropped(t, evs) == Len(t \o evs) > MaxTrace

\* what the caller of session.get + raise_for_status + json() is told
\* (srv = 0: no response, the call raised)
Outcome(resp, exc) ==
  IF exc THEN "Exception"
  ELSE IF resp.status = RateLimitStatus THEN "RateLimited"
  ELSE IF resp.status >= 400 THEN "HTTPError"
  ELSE IF ~resp.json THEN "Exception"
  ELSE IF resp.body = <<>> THEN "Empty"
  ELSE "Page"

(* ---------------------------- fetch_results ---------------------------- *)
\* the slice forgotten: return results
TruncateNoCap(s, n) == s

\* results[:num_results]
Truncate(s, n) == SubSeq(s, 1, Min(n, Len(s)))

\* results.extend(items)
Extend(s, its) == s \o its

\* line 65: while len(results) < num_results
WhileTest ==
  /\ pc = "while"
  /\ pc' = IF Len(results) < num_results THEN "try" ELSE "return"
  /\ UNCHANGED <<num_results, results, page, params, response, items, ret,
                 raised, retry, trace, overflow, got>>
  /\ UNCHANGED exportVars

\* lines 66-68 with a session whose adapter hands every response through
\* (fetch_results takes the session as a parameter): the call returns a
\* response of any status, or raises a transport exception
GetPage ==
  /\ pc = "try"
  /\ params' = page
  /\ \/ \E s \in Statuses :
          \E b \in (IF s = 200 THEN Bodies(page) ELSE {[json |-> FALSE, body |-> <<>>]}) :
            /\ response' = [status |-> s, json |-> b.json, body |-> b.body]
            /\ pc' = "raise_for_status"
            /\ trace' = Log(trace, <<GetEvent(page, Outcome(response', FALSE), s, results)>>)
     \/ /\ response' = response
        /\ pc' = "except"
        /\ trace' = Log(trace, <<GetEvent(page, "Exception", 0, results)>>)
  /\ overflow' = (overflow \/ Dropped(trace, <<0>>))
  /\ UNCHANGED <<num_results, results, page, items, ret, raised, retry, got>>
  /\ UNCHANGED exportVars

\* lines 66-68 with the session search_github returns (lines 53-56): the
\* request enters the HTTPAdapter with a fresh Retry(total=5)
MountedGet ==
  /\ pc = "try"
  /\ params' = page
  /\ retry' = RetryTotal
  /\ pc' = "send"
  /\ UNCHANGED <<num_results, results, page, response, items, ret, raised,
                 trace, overflow, got>>
  /\ UNCHANGED exportVars

\* one request of the adapter (line 68 under lines 54-56).  s = 0 is a
\* connection failure.  A connection failure or a status of the forcelist
\* consumes one retry and the request is sent again; with none left urllib3
\* raises MaxRetryError (raise_on_status is left at its default), which
\* requests hands to the caller as RetryError / ConnectionError: session.get
\* raises, no response is returned.  Any other status is returned as is.
Urlopen ==
  /\ pc = "send"
  /\ \E s \in Statuses \cup {0} :
       IF s = 0 \/ s \in StatusForcelist
         THEN IF retry > 0
                THEN /\ retry' = retry - 1
                     /\ pc' = "send"
                     /\ UNCHANGED <<response, trace, overflow>>
                ELSE /\ pc' = "except"
                     /\ trace' = Log(trace, <<GetEvent(params, "Exception", s, results)>>)
                     /\ overflow' = (overflow \/ Dropped(trace, <<0>>))
                     /\ UNCHANGED <<response, retry>>
         ELSE \E b \in (IF s = 200 THEN Bodies(params) ELSE {[json |-> FALSE, body |-> <<>>]}) :
                /\ response' = [status |-> s, json |-> b.json, body |-> b.body]
                /\ pc' = "raise_for_status"
                /\ trace' = Log(trace, <<GetEvent(params, Outcome(response', FALSE), s, results)>>)
                /\ overflow' = (overflow \/ Dropped(trace, <<0>>))
                /\ UNCHANGED retry
  /\ UNCHANGED <<num_results, results, page, params, items, ret, raised, got>>
  /\ UNCHANGED exportVars

\* lines 69-70: response.raise_for_status(); items = response.json().get('items', [])
RaiseForStatus ==
  /\ pc = "raise_for_status"
  /\ IF response.status >= 400
       THEN pc' = "exceptHTTP" /\ items' = items
       ELSE IF ~response.json
         THEN pc' = "except" /\ items' = items
         ELSE pc' = "items" /\ items' = response.body
  /\ UNCHANGED <<num_results, results, page, params, response, ret, raised,
                 retry, trace, overflow, got>>
  /\ UNCHANGED exportVars

\* `continue` where line 72 has `break`: an empty page does not leave the loop
BodyContinueOnEmpty ==
  /\ pc = "items"
  /\ IF items = <<>>
       THEN /\ pc' = "while"
            /\ UNCHANGED <<results, page, trace, overflow, got>>
       ELSE /\ results' = Extend(results, items)
            /\ page' = page + 1
            /\ got' = Append(got, Len(items))
            /\ trace' = Log(trace, <<SleepEvent(PolitenessDelay, results')>>)
            /\ overflow' = (overflow \/ Dropped(trace, <<0>>))
            /\ pc' = "while"
  /\ UNCHANGED <<num_results, params, response, items, ret, raised, retry>>
  /\ UNCHANGED exportVars

\* lines 71-75: if not items: break; results.extend(items); page += 1; sleep(1)
Body ==
  /\ pc = "items"
  /\ IF items = <<>>
       THEN /\ pc' = "return"
            /\ UNCHANGED <<results, page, trace, overflow, got>>
       ELSE /\ results' = Extend(results, items)
            /\ page' = page + 1
            /\ got' = Append(got, Len(items))
            /\ trace' = Log(trace, <<SleepEvent(PolitenessDelay, results')>>)
            /\ overflow' = (overflow \/ Dropped(trace, <<0>>))
            /\ pc' = "while"
  /\ UNCHANGED <<num_results, params, response, items, ret, raised, retry>>
  /\ UNCHANGED exportVars

\* `page += 1` slipped into the 403 branch: the page that was refused is skipped
ExceptHTTPErrorSkipsPage ==
  /\ pc = "exceptHTTP"
  /\ IF response.status = RateLimitStatus
       THEN /\ trace' = Log(trace, <<SleepEvent(Cooldown, results)>>)
            /\ overflow' = (overflow \/ Dropped(trace, <<0>>))
            /\ page' = page + 1
            /\ pc' = "while"
       ELSE /\ pc' = "return"
            /\ UNCHANGED <<trace, overflow, page>>
  /\ UNCHANGED <<num_results, results, params, response, items, ret,
                 raised, retry, got>>
  /\ UNCHANGED exportVars

\* lines 76-82: except HTTPError: 403 -> sleep(60) and loop again, else break
ExceptHTTPError ==
  /\ pc = "exceptHTTP"
  /\ IF response.status = RateLimitStatus
       THEN /\ trace' = Log(trace, <<SleepEvent(Cooldown, results)>>)
            /\ overflow' = (overflow \/ Dropped(trace, <<0>>))
            /\ pc' = "while"
       ELSE /\ pc' = "return"
            /\ UNCHANGED <<trace, overflow>>
  /\ UNCHANGED <<num_results, results, page, params, response, items, ret,
                 raised, retry, got>>
  /\ UNCHANGED exportVars

\* `raise` where line 85 has `break`: the failure leaves fetch_results
ExceptExceptionReraises ==
  /\ pc = "except"
  /\ pc' = "done"
  /\ raised' = TRUE
  /\ UNCHANGED <<num_results, results, page, params, response, items, ret,
                 retry, trace, overflow, got>>
  /\ UNCHANGED exportVars

\* `continue` where line 85 has `break`: the failed page is asked for again
ExceptExceptionRetries ==
  /\ pc = "except"
  /\ pc' = "while"
  /\ UNCHANGED <<num_results, results, page, params, response, items, ret,
                 raised, retry, trace, overflow, got>>
  /\ UNCHANGED exportVars

\* lines 83-85: except Exception: break
ExceptException ==
  /\ pc = "except"
  /\ pc' = "return"
  /\ UNCHANGED <<num_results, results, page, params, response, items, ret,
                 raised, retry, trace, overflow, got>>
  /\ UNCHANGED exportVars

\* line 86: return results[:num_results]
Return ==
  /\ pc = "return"
  /\ ret' = Truncate(results, num_results)
  /\ pc' = "done"
  /\ UNCHANGED <<num_results, results, page, params, response, items, raised,
                 retry, trace, overflow, got>>
  /\ UNCHANGED exportVars

NoFile == [written |-> FALSE, delimiter |-> "", header |-> <<>>, rows |-> <<>>]

\* no exporter is running
ExportIdle ==
  /\ data = <<>> /\ fmt = "json" /\ translate = FALSE /\ available = FALSE
  /\ epc = "idle" /\ idx = 0 /\ out = <<>> /\ file = NoFile
  /\ retval = NoValue /\ eraised = "none" /\ stdout = FALSE /\ calls = <<>>

\* lines 63-64 on entry of fetch_results(session, base_url, params, headers, num_results)
Init ==
  /\ num_results \in 0..MaxN
  /\ results = <<>>
  /\ page = 1
  /\ params = 0
  /\ response = NoResponse
  /\ items = <<>>
  /\ pc = "while"
  /\ ret = NoValue
  /\ raised = FALSE
  /\ retry = 0
  /\ trace = <<>>
  /\ overflow = FALSE
  /\ got = <<>>
  /\ ExportIdle

Next ==
  \/ WhileTest
  \/ GetPage
  \/ RaiseForStatus
  \/ Body
  \/ ExceptHTTPError
  \/ ExceptException
  \/ Return

Spec == Init /\ [][Next]_vars

\* the interpreter runs the single thread of fetch_results on: every
\* statement that can execute eventually does, and sleep() returns
LiveSpec == Init /\ [][Next]_vars /\ WF_vars(Next)

\* fetch_results as main calls it (lines 233-237): with search_github's session
TransportNext ==
  \/ WhileTest
  \/ MountedGet
  \/ Urlopen
  \/ RaiseForStatus
  \/ Body
  \/ ExceptHTTPError
  \/ ExceptException
  \/ Return

TransportSpec == Init /\ [][TransportNext]_vars

(* ------------------------ claims: fetch_results ------------------------ *)
Gets(o) == {i \in 1..Len(trace) : trace[i].op = "get" /\ trace[i].out \in o}
Sleeps(secs) == {i \in 1..Len(trace) : trace[i].op = "sleep" /\ trace[i].n = secs}
Fetched == Upstream(got, Len(got))

\* C1: whenever fetch_results returns, its result is no longer than
\* num_results and is the first min(num_results, total) records of the
\* concatenation of the pages fetched successfully, taken as pages 1, 2, 3, ...
\* (nothing dropped from the middle, duplicated or reordered; only the
\* overshoot of the last page is cut).
C1_ResultIsCappedPrefix ==
  pc = "done" =>
    /\ Len(ret) <= num_results
    /\ Len(ret) = Min(num_results, Len(Fetched))
    /\ ret = SubSeq(Fetched, 1, Len(ret))

C1_Witness ==
  /\ pc = "done"
  /\ Len(got) >= 2
  /\ Len(Fetched) > num_results
  /\ Len(ret) = num_results

\* C2: an empty page ends the loop: the empty fetch is the last event of the
\* run (no fetch, no sleep after it) and the value returned is the
\* accumulator as it was when that page was asked for.
C2_EmptyPageStops ==
  \A i \in Gets({"Empty"}) :
    /\ i = Len(trace)
    /\ ~overflow
    /\ pc \in {"raise_for_status", "items", "return", "done"}
    /\ pc = "done" => ret = trace[i].acc

C2_Witness ==
  /\ pc = "done"
  /\ Gets({"Empty"}) # {}
  /\ Len(ret) >= 1
  /\ Len(ret) < num_results

\* C3: a RateLimited fetch of page p is followed by exactly one 60-unit
\* sleep and then by a fetch of the same page p with the same accumulator;
\* the run does not return in between; when a page p has been fetched
\* successfully the accumulator is pages 1..p in order, each once; and at
\* every point between iterations the number of 60-unit sleeps equals the
\* number of RateLimited fetches.
C3_RateLimitRetriesSamePage ==
  /\ \A i \in Gets({"RateLimited"}) :
       /\ i + 1 <= Len(trace) => trace[i + 1] = SleepEvent(Cooldown, trace[i].acc)
       /\ i + 2 <= Len(trace) =>
            /\ trace[i + 2].op = "get"
            /\ trace[i + 2].n = trace[i].n
            /\ trace[i + 2].acc = trace[i].acc
       /\ (i = Len(trace) /\ ~overflow) => pc \in {"raise_for_status", "exceptHTTP"}
       /\ (i + 1 = Len(trace) /\ ~overflow) => pc \in {"while", "try"}
  /\ \A j \in Gets({"Page"}) :
       j + 1 <= Len(trace) =>
         /\ trace[j + 1].op = "sleep"
         /\ trace[j + 1].acc = Upstream(got, trace[j].n)
  /\ (~overflow /\ pc \in {"while", "try", "return", "done"}) =>
       Cardinality(Sleeps(Cooldown)) = Cardinality(Gets({"RateLimited"}))

C3_Witness ==
  /\ pc = "done"
  /\ ~overflow
  /\ \E i \in Gets({"RateLimited"}) :
       /\ trace[i].n = 2
       /\ \E j \in Gets({"Page"}) : j > i /\ trace[j].n = 2
  /\ Cardinality(Sleeps(Cooldown)) = 1
  /\ ret = Fetched

\* C4: a Terminal failure (an HTTP error other than 403, or any exception)
\* is the last event of the run: no fetch and no sleep follow it, no
\* exception leaves fetch_results, and the value returned is the accumulator
\* as it was, cut to num_results.
C4_TerminalFailureReturnsPartial ==
  \A i \in Gets({"HTTPError", "Exception"}) :
    /\ i = Len(trace)
    /\ ~overflow
    /\ ~raised
    /\ pc \in {"raise_for_status", "exceptHTTP", "except", "return", "done"}
    /\ pc = "done" => ret = Truncate(trace[i].acc, num_results)

C4_Witness ==
  /\ pc = "done"
  /\ Gets({"HTTPError"}) # {}
  /\ ~raised
  /\ Len(ret) >= 1

\* C5: under the fairness of LiveSpec, a run in which RateLimited is
\* reported only finitely often returns; and as long as every fetch made so
\* far was RateLimited (at least one was made) the run has not left the loop.
C5_ReturnsUnlessRateLimitedForever ==
  /\ ([]<>(pc = "exceptHTTP" /\ response.status = RateLimitStatus)) \/ <>(pc = "done")
  /\ []((~overflow /\ Gets({"RateLimited"}) # {}
           /\ Gets({"Page", "Empty", "HTTPError", "Exception"}) = {})
         => pc \notin {"return", "done"})

C5_Witness ==
  /\ pc = "done"
  /\ Cardinality(Gets({"RateLimited"})) >= 2
  /\ Gets({"Page"}) # {}

\* C10 (as claimed): every 1-unit sleep comes right after a successful page
\* fetch (never after a cooldown) and, once the run has returned, is
\* followed by another fetch (it is not made after the final page).
C10_PolitenessDelayOnlyBetweenFetches ==
  \A i \in Sleeps(PolitenessDelay) :
    /\ i > 1 /\ trace[i - 1].op = "get" /\ trace[i - 1].out = "Page"
    /\ (pc = "done" /\ ~overflow) => (i < Len(trace) /\ trace[i + 1].op = "get")

\* C6 (as claimed): a fetch that ends on a 403 which outlasted the
\* adapter's retries is told to the loop as RateLimited, is followed by the
\* 60-unit sleep and a fetch of the same page, and does not end the run.
C6_Persistent403IsRateLimited ==
  \A i \in 1..Len(trace) :
    (trace[i].op = "get" /\ trace[i].srv = RateLimitStatus) =>
      /\ trace[i].out = "RateLimited"
      /\ i + 1 <= Len(trace) => trace[i + 1] = SleepEvent(Cooldown, trace[i].acc)
      /\ (i = Len(trace) /\ ~overflow) => pc \notin {"except", "return", "done"}

(* ------------------------------ exporters ------------------------------ *)
Absent == "<absent>"
None == "<None>"
LicenseDict == "{'name': 'MIT'}"

\* descriptions a repo of the search API can carry: the key missing, null,
\* empty, or a text
Texts == {"hello", "marhaba", "bonjour", "12345"}
Descriptions == {Absent, None, ""} \cup Texts

Repos ==
  [name : {"repo"}, description : Descriptions, license : {None, LicenseDict},
   description_translated : {Absent}]

RECURSIVE SeqsUpTo(_, _)
SeqsUpTo(S, n) ==
  IF n = 0 THEN {<<>>}
  ELSE LET shorter == SeqsUpTo(S, n - 1)
       IN shorter \cup {Append(q, x) : q \in {r \in shorter : Len(r) = n - 1}, x \in S}

\* repo.get(key): falsy for a missing key, None and ''
Truthy(v) == v \notin {Absent, None, ""}

\* repo.get(field, '')
GetOr(repo, field) ==
  IF field \in DOMAIN repo /\ repo[field] # Absent THEN repo[field] ELSE ""

\* langdetect.detect (line 15): the tag of the text, or LangDetectException
\* for a text with no letters in it
detect(text) ==
  CASE text = "hello" -> "en"
    [] text = "marhaba" -> "ar"
    [] text = "bonjour" -> "fr"
    [] OTHER -> "LangDetectException"

\* lines 93-94: detect(repo['description']) if TRANSLATION_AVAILABLE else 'en'
DetectLang(text) == IF available THEN detect(text) ELSE "en"

\* what the translation service answers for a text
translatedText(text) == IF text = "bonjour" THEN "good day" ELSE text

\* lines 22-34: translate_text; ok = the POST, raise_for_status and the
\* lookup of 'translatedText' all succeeded
translate_text(text, ok) ==
  IF ~available THEN text
  ELSE IF ok THEN translatedText(text)
  ELSE text

\* lines 111-113
fieldnames ==
  <<"name", "full_name", "html_url", "description", "description_translated",
    "stargazers_count", "watchers_count", "forks_count", "language", "license",
    "updated_at">>
FieldSet == {fieldnames[k] : k \in 1..Len(fieldnames)}

DetectCall(i, tag) == [i |-> i, fn |-> "detect", res |-> tag]
TranslateCall(i, t) == [i |-> i, fn |-> "translate", res |-> t]

\* lines 91-100: one iteration of save_to_json's loop (mutates data in place)
SaveJsonRepo ==
  /\ fmt = "json" /\ epc = "loop" /\ idx <= Len(data)
  /\ LET repo == data[idx] IN
     IF translate /\ Truthy(repo.description)
       THEN LET lang == DetectLang(repo.description) IN
            IF lang = "LangDetectException"
              THEN /\ eraised' = "LangDetectException"
                   /\ epc' = "done"
                   /\ calls' = Append(calls, DetectCall(idx, lang))
                   /\ UNCHANGED <<data, idx>>
              ELSE /\ idx' = idx + 1
                   /\ UNCHANGED <<eraised, epc>>
                   /\ IF lang \notin {"en", "ar"}
                        THEN \E ok \in BOOLEAN :
                               LET t == translate_text(repo.description, ok) IN
                               /\ data' = [data EXCEPT ![idx].description_translated = t]
                               /\ calls' = calls \o <<DetectCall(idx, lang), TranslateCall(idx, t)>>
                        ELSE /\ data' = [data EXCEPT ![idx].description_translated = ""]
                             /\ calls' = Append(calls, DetectCall(idx, lang))
       ELSE /\ idx' = idx + 1
            /\ UNCHANGED <<data, eraised, epc, calls>>
  /\ UNCHANGED <<fmt, translate, available, out, file, retval, stdout>>
  /\ UNCHANGED fetchVars

\* lines 101-103: json.dump(data, f, indent=2, ensure_ascii=False); print
SaveJsonDump ==
  /\ fmt = "json" /\ epc = "loop" /\ idx > Len(data)
  /\ file' = [written |-> TRUE, delimiter |-> "", header |-> <<>>, rows |-> data]
  /\ stdout' = TRUE
  /\ retval' = <<"None">>
  /\ epc' = "done"
  /\ UNCHANGED <<data, fmt, translate, available, idx, out, eraised, calls>>
  /\ UNCHANGED fetchVars

\* lines 108-117: if not data: return; open the file, write the header
SaveCsvOpen ==
  /\ fmt \in {"csv", "tsv"} /\ epc = "check"
  /\ IF data = <<>>
       THEN /\ retval' = <<"None">>
            /\ epc' = "done"
            /\ UNCHANGED file
       ELSE /\ file' = [written |-> TRUE,
                        delimiter |-> IF fmt = "tsv" THEN "\t" ELSE ",",
                        header |-> fieldnames, rows |-> <<>>]
            /\ epc' = "loop"
            /\ UNCHANGED retval
  /\ UNCHANGED <<data, fmt, translate, available, idx, out, eraised, stdout, calls>>
  /\ UNCHANGED fetchVars

\* lines 120-122: the row before enrichment
CsvRow(repo) ==
  [f \in FieldSet |->
     IF f = "license" /\ repo.license # None /\ repo.license # Absent
       THEN "MIT"
       ELSE GetOr(repo, f)]

\* lines 119-132: one iteration of save_to_csv's loop
SaveCsvRow ==
  /\ fmt \in {"csv", "tsv"} /\ epc = "loop" /\ idx <= Len(data)
  /\ LET repo == data[idx]
         row == CsvRow(repo) IN
     IF translate /\ Truthy(repo.description)
       THEN LET lang == DetectLang(repo.description) IN
            IF lang = "LangDetectException"
              THEN /\ eraised' = "LangDetectException"
                   /\ epc' = "done"
                   /\ calls' = Append(calls, DetectCall(idx, lang))
                   /\ UNCHANGED <<file, idx>>
              ELSE /\ idx' = idx + 1
                   /\ UNCHANGED <<eraised, epc>>
                   /\ IF lang \notin {"en", "ar"}
                        THEN \E ok \in BOOLEAN :
                               LET t == translate_text(repo.description, ok) IN
                               /\ file' = [file EXCEPT !.rows =
                                    Append(@, [row EXCEPT !["description_translated"] = t])]
                               /\ calls' = calls \o <<DetectCall(idx, lang), TranslateCall(idx, t)>>
                        ELSE /\ file' = [file EXCEPT !.rows =
                                    Append(@, [row EXCEPT !["description_translated"] = ""])]
                             /\ calls' = Append(calls, DetectCall(idx, lang))
       ELSE /\ idx' = idx + 1
            /\ file' = [file EXCEPT !.rows = Append(@, row)]
            /\ UNCHANGED <<eraised, epc, calls>>
  /\ UNCHANGED <<data, fmt, translate, available, out, retval, stdout>>
  /\ UNCHANGED fetchVars

\* line 133: the with-block is left, print, fall off the end
SaveCsvClose ==
  /\ fmt \in {"csv", "tsv"} /\ epc = "loop" /\ idx > Len(data)
  /\ stdout' = TRUE
  /\ retval' = <<"None">>
  /\ epc' = "done"
  /\ UNCHANGED <<data, fmt, translate, available, idx, out, file, eraised, calls>>
  /\ UNCHANGED fetchVars

\* str(value)
Str(v) == IF v = None THEN "None" ELSE v

\* repo.items(): the keys the dict holds, in insertion order
Items(repo) ==
  SelectSeq(<<"name", "description", "license", "description_translated">>,
            LAMBDA k : repo[k] # Absent)

\* lines 141-157 for one key whose handling makes no enrichment call:
\* the children it adds to repo_element
XmlPlain(repo, key) ==
  IF key \in {"owner", "license"} THEN <<>>
  ELSE <<<<key, Str(repo[key])>>>>

RECURSIVE XmlDrain(_, _, _)
\* children for keys[k..] of a repo none of which is an enriched description
XmlDrain(repo, keys, k) ==
  IF k > Len(keys) THEN <<>>
  ELSE XmlPlain(repo, keys[k]) \o XmlDrain(repo, keys, k + 1)

\* lines 139-157: one iteration of save_to_xml's outer loop
SaveXmlRepo ==
  /\ fmt = "xml" /\ epc = "loop" /\ idx <= Len(data)
  /\ LET repo == data[idx]
         keys == Items(repo)
         before == XmlPlain(repo, "name")
         after == IF repo.description_translated # Absent
                    THEN XmlPlain(repo, "description_translated") ELSE <<>> IN
     IF translate /\ Truthy(repo.description)
       THEN LET lang == DetectLang(repo.description) IN
            IF lang = "LangDetectException"
              THEN /\ eraised' = "LangDetectException"
                   /\ epc' = "done"
                   /\ calls' = Append(calls, DetectCall(idx, lang))
                   /\ UNCHANGED <<out, idx>>
              ELSE /\ idx' = idx + 1
                   /\ UNCHANGED <<eraised, epc>>
                   /\ IF lang \notin {"en", "ar"}
                        THEN \E ok \in BOOLEAN :
                               LET t == translate_text(repo.description, ok) IN
                               /\ out' = Append(out,
                                    before \o <<<<"description", repo.description>>,
                                                <<"description_translated", t>>>> \o after)
                               /\ calls' = calls \o <<DetectCall(idx, lang), TranslateCall(idx, t)>>
                        ELSE /\ out' = Append(out,
                                    before \o <<<<"description", Str(repo.description)>>>> \o after)
                             /\ calls' = Append(calls, DetectCall(idx, lang))
       ELSE /\ idx' = idx + 1
            /\ out' = Append(out, XmlDrain(repo, keys, 1))
            /\ UNCHANGED <<eraised, epc, calls>>
  /\ UNCHANGED <<data, fmt, translate, available, file, retval, stdout>>
  /\ UNCHANGED fetchVars

\* lines 159-161: tree.write(filename, ...); print
SaveXmlWrite ==
  /\ fmt = "xml" /\ epc = "loop" /\ idx > Len(data)
  /\ file' = [written |-> TRUE, delimiter |-> "", header |-> <<"repositories">>, rows |-> out]
  /\ stdout' = TRUE
  /\ retval' = <<"None">>
  /\ epc' = "done"
  /\ UNCHANGED <<data, fmt, translate, available, idx, out, eraised, calls>>
  /\ UNCHANGED fetchVars

\* no fetch_results is running
FetchIdle ==
  /\ num_results = 0 /\ results = <<>> /\ page = 1 /\ params = 0
  /\ response = NoResponse /\ items = <<>> /\ pc = "idle" /\ ret = NoValue
  /\ raised = FALSE /\ retry = 0 /\ trace = <<>> /\ overflow = FALSE /\ got = <<>>

\* entry of save_to_json(data, filename, translate),
\* save_to_csv(data, filename, translate, delimiter) or
\* save_to_xml(data, filename, translate)
ExportInit ==
  /\ FetchIdle
  /\ data \in SeqsUpTo(Repos, MaxRecords)
  /\ fmt \in {"json", "csv", "tsv", "xml"}
  /\ translate \in BOOLEAN
  /\ available \in BOOLEAN
  /\ epc = IF fmt \in {"csv", "tsv"} THEN "check" ELSE "loop"
  /\ idx = 1
  /\ out = <<>>
  /\ file = NoFile
  /\ retval = NoValue
  /\ eraised = "none"
  /\ stdout = FALSE
  /\ calls = <<>>

ExportNext ==
  \/ SaveJsonRepo
  \/ SaveJsonDump
  \/ SaveCsvOpen
  \/ SaveCsvRow
  \/ SaveCsvClose
  \/ SaveXmlRepo
  \/ SaveXmlWrite

ExportSpec == ExportInit /\ [][ExportNext]_vars

(* -------------------------- claims: exporters -------------------------- *)
\* the value the written output carries for record i under key (Absent if
\* the output has no such key / column / child element)
OutField(i, key) ==
  IF ~file.written \/ i > Len(file.rows) THEN Absent
  ELSE IF fmt = "xml"
    THEN LET row == file.rows[i]
             hits == {k \in 1..Len(row) : row[k][1] = key}
         IN IF hits = {} THEN Absent ELSE row[CHOOSE k \in hits : TRUE][2]
    ELSE file.rows[i][key]

CallsOf(i, fn) == {k \in 1..Len(calls) : calls[k].i = i /\ calls[k].fn = fn}

\* what save_to_csv reports to its caller after it has written a file:
\* line 133 falls off the end (None) and nothing is raised
CsvSuccessOutcome == <<<<"None">>, "none">>

\* C7 (as claimed): no enrichment failure leaves an exporter: a translation
\* that fails yields the original text, a classification that fails is
\* caught, and every export that was begun writes all its records.
C7_EnrichmentFailuresNeverPropagate ==
  /\ eraised = "none"
  /\ \A k \in 1..Len(calls) :
       calls[k].fn = "translate" =>
         calls[k].res \in {data[calls[k].i].description,
                           translatedText(data[calls[k].i].description)}
  /\ (epc = "done" /\ data # <<>>) =>
       (file.written /\ Len(file.rows) = Len(data))

\* C8 (as claimed): with enrichment on, every record with a non-empty
\* description is written, in every format, with its description and with
\* description_translated: the translation result when the detected tag is
\* outside {en, ar}, the empty string (present) otherwise.
C8_TranslatedFieldAlwaysPresent ==
  (epc = "done" /\ eraised = "none" /\ translate) =>
    \A i \in 1..Len(data) :
      Truthy(data[i].description) =>
        /\ OutField(i, "description") = data[i].description
        /\ IF DetectLang(data[i].description) \notin {"en", "ar"}
             THEN \E k \in CallsOf(i, "translate") :
                    OutField(i, "description_translated") = calls[k].res
             ELSE OutField(i, "description_translated") = ""

\* C9 (as claimed): for an empty collection save_to_csv writes nothing and
\* what it reports to its caller differs from what it reports after writing
\* a file; save_to_json and save_to_xml write an empty container.
C9_EmptyCollectionSignalled ==
  epc = "done" =>
    /\ (fmt \in {"csv", "tsv"} /\ file.written /\ eraised = "none") =>
         <<retval, eraised>> = CsvSuccessOutcome
    /\ (fmt \in {"csv", "tsv"} /\ data = <<>>) =>
         (~file.written /\ <<retval, eraised>> # CsvSuccessOutcome)
    /\ (fmt \in {"json", "xml"} /\ data = <<>>) =>
         (file.written /\ file.rows = <<>>)

====
